---- MODULE Spec2Model ----
(***************************************************************************)
(* Model of bpf-experiments: the XDP packet classifier (kernelspace probe) *)
(* with its three BPF hash maps, and the userspace control plane (unix     *)
(* socket connections, the mpsc command queue and the executor loop).      *)
(*                                                                         *)
(* A u32 that is used as an address is written as the tuple of its four    *)
(* bytes, most significant first; an Ipv4Addr is the tuple of its octets.  *)
(* Packet counts are integers of a scaled width: U32_MAX stands for        *)
(* u32::MAX, max_entries for the maps' with_max_entries(100) and           *)
(* QueueCapacity for mpsc::channel(512).                                   *)
(***************************************************************************)
EXTENDS FiniteSets, Integers, Sequences, TLC

\* ---------------------------------------------------------------- bounds
\* Scaled u32::MAX of the packet counters.
U32_MAX == 2
\* Scaled capacity of each BPF hash map (with_max_entries).
max_entries == 1
\* Scaled capacity of the command queue (mpsc::channel).
QueueCapacity == 1
\* Number of packets the interface ever receives.
MaxPackets == 2

\* The CPUs that run the XDP program and the connections that are ever
\* accepted, in the specification of the whole system.
Cpus == {"cpu0"}
Conns == {1, 2}
\* The connections of the specification of the control plane alone, whose
\* queue has one more slot so that requests queue up behind each other.
ControlConns == {1, 2, 3}
ControlQueueCapacity == QueueCapacity + 1

None == "None"

\* ------------------------------------------------- addresses and the codec
\* u32::swap_bytes
swap_bytes(x) == <<x[4], x[3], x[2], x[1]>>

\* u32::from_be_bytes: the first octet is the most significant byte.
from_be_bytes(o) == <<o[1], o[2], o[3], o[4]>>

\* impl From<u32> for Ipv4Addr (std): the octets are the big-endian bytes.
Ipv4Addr_from_u32(x) == <<x[1], x[2], x[3], x[4]>>

\* A mutant of to_ip that forgets the byte swap.
to_ip_noswap(be) == Ipv4Addr_from_u32(be)

\* BeIpv4Addr::to_ip
to_ip(be) == Ipv4Addr_from_u32(swap_bytes(be))

\* impl From<u32> for BeIpv4Addr
BeIpv4Addr_from_u32(be) == be

\* A mutant of the conversion below that forgets the byte swap.
BeIpv4Addr_from_ip_noswap(ip) == from_be_bytes(ip)

\* impl From<Ipv4Addr> for BeIpv4Addr
BeIpv4Addr_from_ip(ip) == swap_bytes(from_be_bytes(ip))

\* (*iphdr).saddr: the four wire bytes of a header field loaded as a native
\* u32 on the little-endian target, so the first wire byte is the least
\* significant one.
load_be32(wire) == <<wire[4], wire[3], wire[2], wire[1]>>

\* impl Display for Ipv4Addr
FmtIp(ip) ==
    ToString(ip[1]) \o "." \o ToString(ip[2]) \o "." \o ToString(ip[3])
        \o "." \o ToString(ip[4])

\* impl Display for bool
FmtBool(b) == IF b THEN "true" ELSE "false"

\* ------------------------------------------------------------ BPF hash map
EmptyMap == [k \in {} |-> 0]

\* HashMap::get(..).unwrap_or(&default)
MapGetOr(m, k, default) == IF k \in DOMAIN m THEN m[k] ELSE default

\* A mutant of MapSet that inserts a new key whatever the number of entries.
MapSetUnbounded(m, k, v) ==
    [x \in DOMAIN m \cup {k} |-> IF x = k THEN v ELSE m[x]]

\* A mutant of MapSet that makes room for a new key by evicting an entry.
MapSetEvict(m, k, v) ==
    IF k \in DOMAIN m \/ Cardinality(DOMAIN m) < max_entries
    THEN [x \in DOMAIN m \cup {k} |-> IF x = k THEN v ELSE m[x]]
    ELSE LET victim == CHOOSE x \in DOMAIN m : TRUE
         IN  [x \in (DOMAIN m \ {victim}) \cup {k} |->
                 IF x = k THEN v ELSE m[x]]

\* HashMap::set on a map declared with_max_entries: bpf_map_update_elem
\* updates an existing key in place, inserts a new key while the map holds
\* fewer than max_entries entries, and otherwise fails (E2BIG) leaving the
\* map as it is.  Neither caller looks at the result.
MapSet(m, k, v) ==
    IF k \in DOMAIN m \/ Cardinality(DOMAIN m) < max_entries
    THEN [x \in DOMAIN m \cup {k} |-> IF x = k THEN v ELSE m[x]]
    ELSE m

\* A mutant of saturating_add that wraps around.
wrapping_add(count, n) == (count + n) % (U32_MAX + 1)

\* u32::saturating_add
saturating_add(count, n) ==
    IF count + n > U32_MAX THEN U32_MAX ELSE count + n

\* ------------------------------------------------------------------ state
VARIABLES
    SRC_PACKETS,  \* map BeIpv4Addr -> u32
    DST_PACKETS,  \* map BeIpv4Addr -> u32
    SRC_BLOCK,    \* map BeIpv4Addr -> bool
    xdp,          \* per CPU: the invocation of process() running there
    npackets,     \* packets the interface has still to receive
    codec,        \* the address value a conversion of the codec is applied to
    accepted,     \* connections the accept loop has accepted so far
    conn,         \* per connection: where its process_command task is
    stream_out,   \* per connection: the texts written to its stream
    commands,     \* the requests buffered in the mpsc channel
    permits,      \* free slots of the mpsc channel
    oneshot,      \* per connection: the value in its oneshot reply channel
    reply_sends,  \* per connection: number of reply.send calls on its channel
    request_sends,\* per connection: number of CommandRequests it has sent
    sent_log,     \* the connections in the order their commands_tx.send completed
    recv_log      \* the connections in the order main received their request

tables == <<SRC_PACKETS, DST_PACKETS, SRC_BLOCK>>
classifier == <<xdp, npackets, codec>>
control ==
    <<accepted, conn, stream_out, commands, permits, oneshot, reply_sends,
      request_sends, sent_log, recv_log>>
vars == <<SRC_PACKETS, DST_PACKETS, SRC_BLOCK, xdp, npackets, codec, accepted, conn,
          stream_out, commands, permits, oneshot, reply_sends, request_sends,
          sent_log, recv_log>>

\* A received frame: whether ctx.ip() finds an IPv4 header in it, and the
\* wire bytes at the header's source and destination address fields.
Packets ==
    {[valid |-> TRUE, saddr |-> <<10, 0, 0, 1>>, daddr |-> <<10, 0, 0, 2>>],
     [valid |-> TRUE, saddr |-> <<10, 0, 0, 2>>, daddr |-> <<10, 0, 0, 1>>],
     [valid |-> TRUE, saddr |-> <<1, 0, 0, 10>>, daddr |-> <<10, 0, 0, 2>>],
     [valid |-> TRUE, saddr |-> <<10, 0, 0, 1>>, daddr |-> <<1, 0, 0, 10>>],
     [valid |-> FALSE, saddr |-> <<10, 0, 0, 1>>, daddr |-> <<10, 0, 0, 2>>]}

NoIp == <<0, 0, 0, 0>>
NoPacket == [valid |-> FALSE, saddr |-> NoIp, daddr |-> NoIp]

\* An invocation of process(): its position, the packet, the two `count`
\* locals and the XdpAction it returned.
XdpIdle ==
    [pc |-> "idle", pkt |-> NoPacket, count_src |-> 0, count_dst |-> 0,
     action |-> None]

\* let (src_ip, dst_ip): (BeIpv4Addr, BeIpv4Addr) = ((*iphdr).saddr.into(), ..)
src_ip(inv) == BeIpv4Addr_from_u32(load_be32(inv.pkt.saddr))
dst_ip(inv) == BeIpv4Addr_from_u32(load_be32(inv.pkt.daddr))

\* ----------------------------------------------------------- control plane
\* A line a client sends is a sequence of tokens; " ", "\r" and "\n" are the
\* whitespace tokens.  The empty sequence is end of file.
Whitespace == {" ", "\r", "\n"}

Lines ==
    {<<"list-src", "\n">>,
     <<"list-dst", "\r", "\n">>,
     <<"list-block-src", "\n">>,
     <<"block-src", " ", "10.0.0.1", "\n">>,
     <<"block-src", " ", "10.0.0.2", "\r", "\n">>,
     <<"block-src", " ", "1.0.0.10", "\n">>,
     <<"block-src", " ", "\n">>,
     <<"block-src", " ", " ", "10.0.0.1", "\n">>,
     <<"block-src", " ", "bogus", "\n">>,
     <<"list-src", " ", "extra", "\n">>,
     <<"list-block-src", " ", "extra", "\n">>,
     <<"frobnicate", "\n">>,
     <<"\n">>,
     <<>>}

\* str::trim_end
RECURSIVE trim_end(_)
trim_end(line) ==
    IF line # <<>> /\ line[Len(line)] \in Whitespace
    THEN trim_end(SubSeq(line, 1, Len(line) - 1))
    ELSE line

\* Option<&str>::None
NoParams == [some |-> FALSE, str |-> <<>>]

\* cmd_slice.splitn(2, ' '): the part before the first space, and the rest
\* after it when there is a space.
splitn2(slice) ==
    LET spaces == {i \in 1..Len(slice) : slice[i] = " "}
    IN  IF spaces = {}
        THEN [cmd |-> slice, params |-> NoParams]
        ELSE LET i == CHOOSE j \in spaces : \A k \in spaces : j <= k
             IN  [cmd |-> SubSeq(slice, 1, i - 1),
                  params |-> [some |-> TRUE,
                              str |-> SubSeq(slice, i + 1, Len(slice))]]

\* <Ipv4Addr as FromStr>::from_str on the literals the clients use.
IpLiterals ==
    [lit \in {"10.0.0.1", "10.0.0.2", "1.0.0.10"} |->
        CASE lit = "10.0.0.1" -> <<10, 0, 0, 1>>
          [] lit = "10.0.0.2" -> <<10, 0, 0, 2>>
          [] lit = "1.0.0.10" -> <<1, 0, 0, 10>>]

\* ip.parse()
parse_ip(str) ==
    IF Len(str) = 1 /\ str[1] \in DOMAIN IpLiterals
    THEN [ok |-> TRUE, ip |-> IpLiterals[str[1]]]
    ELSE [ok |-> FALSE, ip |-> NoIp]

NoCommand == [op |-> None, ip |-> NoIp]

\* A text is the sequence of its newline-terminated lines; "" is <<>>.
\* A mutant of parse_command that lets a list command carry parameters.
parse_command_lenient(line) ==
    LET parts == splitn2(trim_end(line))
        cmd == parts.cmd
        params == parts.params
    IN  CASE cmd = <<"list-src">> ->
                [err |-> <<>>, command |-> [op |-> "ListSrcIps", ip |-> NoIp]]
          [] cmd = <<"list-dst">> ->
                [err |-> <<>>, command |-> [op |-> "ListDstIps", ip |-> NoIp]]
          [] cmd = <<"list-block-src">> ->
                [err |-> <<>>, command |-> [op |-> "ListBlockSrc", ip |-> NoIp]]
          [] cmd = <<"block-src">> /\ params.some ->
                IF parse_ip(params.str).ok
                THEN [err |-> <<>>,
                      command |-> [op |-> "BlockSrc", ip |-> parse_ip(params.str).ip]]
                ELSE [err |-> <<"could not parse ip: invalid IP address syntax\n">>,
                      command |-> NoCommand]
          [] cmd = <<"block-src">> /\ ~params.some ->
                [err |-> <<"command requires parameters\n">>, command |-> NoCommand]
          [] OTHER ->
                [err |-> <<"invalid command\n">>, command |-> NoCommand]

\* The match on (cmd, params) in process_command: the Command, or the
\* message written to the client before the task returns an error.
parse_command(line) ==
    LET parts == splitn2(trim_end(line))
        cmd == parts.cmd
        params == parts.params
    IN  CASE cmd = <<"list-src">> /\ ~params.some ->
                [err |-> <<>>, command |-> [op |-> "ListSrcIps", ip |-> NoIp]]
          [] cmd = <<"list-dst">> /\ ~params.some ->
                [err |-> <<>>, command |-> [op |-> "ListDstIps", ip |-> NoIp]]
          [] cmd = <<"list-block-src">> /\ ~params.some ->
                [err |-> <<>>, command |-> [op |-> "ListBlockSrc", ip |-> NoIp]]
          [] cmd = <<"block-src">> /\ params.some ->
                IF parse_ip(params.str).ok
                THEN [err |-> <<>>,
                      command |-> [op |-> "BlockSrc", ip |-> parse_ip(params.str).ip]]
                ELSE [err |-> <<"could not parse ip: invalid IP address syntax\n">>,
                      command |-> NoCommand]
          [] cmd \in {<<"list-src">>, <<"list-dst">>} /\ params.some ->
                [err |-> <<"unexpected parameters\n">>, command |-> NoCommand]
          [] cmd = <<"block-src">> /\ ~params.some ->
                [err |-> <<"command requires parameters\n">>, command |-> NoCommand]
          [] OTHER ->
                [err |-> <<"invalid command\n">>, command |-> NoCommand]

\* A oneshot channel nothing was sent on.
EmptySlot == [full |-> FALSE, text |-> <<>>]

ConnInit == [pc |-> "unaccepted", command |-> NoCommand]

\* No conversion of the codec is under way.
NoCodec == [stage |-> "idle", v |-> NoIp, ip |-> NoIp, back |-> NoIp]

\* The state once main has attached the probe, created the channel with
\* `capacity` slots and spawned the accept loop; `packets` frames are still
\* to arrive at the interface.
InitWith(cpus, conns, capacity, packets) ==
    /\ SRC_PACKETS = EmptyMap
    /\ DST_PACKETS = EmptyMap
    /\ SRC_BLOCK = EmptyMap
    /\ xdp = [c \in cpus |-> XdpIdle]
    /\ npackets = packets
    /\ accepted = 0
    /\ conn = [c \in conns |-> ConnInit]
    /\ stream_out = [c \in conns |-> <<>>]
    /\ commands = <<>>
    /\ permits = capacity
    /\ oneshot = [c \in conns |-> EmptySlot]
    /\ reply_sends = [c \in conns |-> 0]
    /\ request_sends = [c \in conns |-> 0]
    /\ sent_log = <<>>
    /\ recv_log = <<>>

Init == InitWith(Cpus, Conns, QueueCapacity, MaxPackets) /\ codec = NoCodec

InitControl ==
    InitWith(Cpus, ControlConns, ControlQueueCapacity, MaxPackets) /\ codec = NoCodec

\* ------------------------------------------------------------------ codec
\* The bytes the u32 values given to the codec are made of.
CodecBytes == {0, 1, 127, 255}
CodecValues == {<<a, b, c, d>> : a, b, c, d \in CodecBytes}

\* beipv4addr_u32_roundtrip(be): let original_beaddr = BeIpv4Addr(be)
InitCodec ==
    /\ InitWith(Cpus, {}, QueueCapacity, 0)
    /\ codec \in {[NoCodec EXCEPT !.stage = "be", !.v = BeIpv4Addr_from_u32(be)] :
                      be \in CodecValues}

\* original_beaddr.to_ip()
CodecToIp ==
    /\ codec.stage = "be"
    /\ codec' = [codec EXCEPT !.stage = "ip", !.ip = to_ip(codec.v)]
    /\ UNCHANGED <<tables, xdp, npackets, control>>

\* let converted_beaddr: BeIpv4Addr = (..).into()
CodecFromIp ==
    /\ codec.stage = "ip"
    /\ codec' = [codec EXCEPT !.stage = "back",
                              !.back = BeIpv4Addr_from_ip(codec.ip)]
    /\ UNCHANGED <<tables, xdp, npackets, control>>

NextCodec == CodecToIp \/ CodecFromIp

SpecCodec == InitCodec /\ [][NextCodec]_vars

\* ------------------------------------------------------- packet classifier
\* A mutant of ProcessNoIpHeader that consults the blocklist for the bytes
\* where the source address would be.
ProcessNoIpHeaderChecked(cpu, pkt) ==
    /\ xdp[cpu].pc \in {"idle", "returned"}
    /\ npackets > 0
    /\ ~pkt.valid
    /\ npackets' = npackets - 1
    /\ xdp' = [xdp EXCEPT ![cpu] =
                  [XdpIdle EXCEPT
                      !.pc = "returned", !.pkt = pkt,
                      !.action =
                          IF MapGetOr(SRC_BLOCK, load_be32(pkt.saddr), FALSE)
                          THEN "Aborted" ELSE "Pass"]]
    /\ UNCHANGED <<tables, codec, control>>

\* process(): ctx.ip() fails, the packet is passed.
ProcessNoIpHeader(cpu, pkt) ==
    /\ xdp[cpu].pc \in {"idle", "returned"}
    /\ npackets > 0
    /\ ~pkt.valid
    /\ npackets' = npackets - 1
    /\ xdp' = [xdp EXCEPT ![cpu] =
                  [XdpIdle EXCEPT !.pc = "returned", !.pkt = pkt,
                                  !.action = "Pass"]]
    /\ UNCHANGED <<tables, codec, control>>

\* A mutant of ProcessSrcGet that checks the blocklist first and returns
\* before any counting.
ProcessSrcGetBlockFirst(cpu, pkt) ==
    /\ xdp[cpu].pc \in {"idle", "returned"}
    /\ npackets > 0
    /\ pkt.valid
    /\ npackets' = npackets - 1
    /\ LET inv == [XdpIdle EXCEPT !.pc = "src_set", !.pkt = pkt]
       IN  xdp' = [xdp EXCEPT ![cpu] =
                      IF MapGetOr(SRC_BLOCK, src_ip(inv), FALSE)
                      THEN [inv EXCEPT !.pc = "returned", !.action = "Aborted"]
                      ELSE [inv EXCEPT !.count_src =
                                           MapGetOr(SRC_PACKETS, src_ip(inv), 0)]]
    /\ UNCHANGED <<tables, codec, control>>

\* process(): ctx.ip() succeeds, the addresses are taken from the header and
\* the source count is read.
ProcessSrcGet(cpu, pkt) ==
    /\ xdp[cpu].pc \in {"idle", "returned"}
    /\ npackets > 0
    /\ pkt.valid
    /\ npackets' = npackets - 1
    /\ LET inv == [XdpIdle EXCEPT !.pc = "src_set", !.pkt = pkt]
       IN  xdp' = [xdp EXCEPT ![cpu] =
                      [inv EXCEPT !.count_src =
                                      MapGetOr(SRC_PACKETS, src_ip(inv), 0)]]
    /\ UNCHANGED <<tables, codec, control>>

\* SRC_PACKETS.set(&src_ip, &count.saturating_add(1))
ProcessSrcSet(cpu) ==
    /\ xdp[cpu].pc = "src_set"
    /\ SRC_PACKETS' =
           MapSet(SRC_PACKETS, src_ip(xdp[cpu]),
                  saturating_add(xdp[cpu].count_src, 1))
    /\ xdp' = [xdp EXCEPT ![cpu].pc = "dst_get"]
    /\ UNCHANGED <<DST_PACKETS, SRC_BLOCK, npackets, codec, control>>

\* let count = DST_PACKETS.get(&dst_ip).unwrap_or(&initial)
ProcessDstGet(cpu) ==
    /\ xdp[cpu].pc = "dst_get"
    /\ xdp' = [xdp EXCEPT ![cpu].pc = "dst_set",
                          ![cpu].count_dst =
                              MapGetOr(DST_PACKETS, dst_ip(xdp[cpu]), 0)]
    /\ UNCHANGED <<tables, npackets, codec, control>>

\* DST_PACKETS.set(&dst_ip, &count.saturating_add(1))
ProcessDstSet(cpu) ==
    /\ xdp[cpu].pc = "dst_set"
    /\ DST_PACKETS' =
           MapSet(DST_PACKETS, dst_ip(xdp[cpu]),
                  saturating_add(xdp[cpu].count_dst, 1))
    /\ xdp' = [xdp EXCEPT ![cpu].pc = "block_check"]
    /\ UNCHANGED <<SRC_PACKETS, SRC_BLOCK, npackets, codec, control>>

\* The verdict: Aborted when SRC_BLOCK holds true for the source, else Pass.
ProcessBlockCheck(cpu) ==
    /\ xdp[cpu].pc = "block_check"
    /\ xdp' = [xdp EXCEPT ![cpu].pc = "returned",
                          ![cpu].action =
                              IF MapGetOr(SRC_BLOCK, src_ip(xdp[cpu]), FALSE)
                              THEN "Aborted" ELSE "Pass"]
    /\ UNCHANGED <<tables, npackets, codec, control>>

\* ------------------------------------------------------------ front end
\* A mutant of Accept that runs process_command to its end inside the accept
\* loop instead of spawning a task for it.
AcceptInline ==
    /\ accepted < Cardinality(DOMAIN conn)
    /\ \A c \in 1..accepted : conn[c].pc = "closed"
    /\ accepted' = accepted + 1
    /\ conn' = [conn EXCEPT ![accepted + 1].pc = "read_line"]
    /\ UNCHANGED <<tables, classifier, stream_out, commands, permits, oneshot,
                   reply_sends, request_sends, sent_log, recv_log>>

\* control_socket_accept_loop: accept() returns a stream and a task running
\* process_command is spawned for it.
Accept ==
    /\ accepted < Cardinality(DOMAIN conn)
    /\ accepted' = accepted + 1
    /\ conn' = [conn EXCEPT ![accepted + 1].pc = "read_line"]
    /\ UNCHANGED <<tables, classifier, stream_out, commands, permits, oneshot,
                   reply_sends, request_sends, sent_log, recv_log>>

\* A mutant of Enqueue that does not wait for a free slot.
EnqueueUnbounded(c, command) ==
    /\ permits' = permits - 1
    /\ commands' = Append(commands, [command |-> command, reply |-> c])
    /\ request_sends' = [request_sends EXCEPT ![c] = @ + 1]
    /\ sent_log' = Append(sent_log, c)

\* commands_tx.send(CommandRequest {command, reply: reply_tx}) completes: the
\* request takes a free slot at the back of the queue.
Enqueue(c, command) ==
    /\ permits > 0
    /\ permits' = permits - 1
    /\ commands' = Append(commands, [command |-> command, reply |-> c])
    /\ request_sends' = [request_sends EXCEPT ![c] = @ + 1]
    /\ sent_log' = Append(sent_log, c)

\* process_command, from read_line up to its first suspension: end of file
\* ends the task; a line that does not parse is answered with its message
\* and ends the task; a command is sent to the queue, at once when the queue
\* has room.
ConnReadLine(c, line) ==
    /\ conn[c].pc = "read_line"
    /\ LET parsed == parse_command(line)
       IN  IF line = <<>>
           THEN /\ conn' = [conn EXCEPT ![c].pc = "closed"]
                /\ UNCHANGED <<stream_out, commands, permits, request_sends,
                               sent_log>>
           ELSE IF parsed.err # <<>>
           THEN /\ stream_out' = [stream_out EXCEPT ![c] = Append(@, parsed.err)]
                /\ conn' = [conn EXCEPT ![c].pc = "closed"]
                /\ UNCHANGED <<commands, permits, request_sends, sent_log>>
           ELSE IF permits > 0
           THEN /\ Enqueue(c, parsed.command)
                /\ conn' = [conn EXCEPT ![c].pc = "reply_rx",
                                        ![c].command = parsed.command]
                /\ UNCHANGED stream_out
           ELSE /\ conn' = [conn EXCEPT ![c].pc = "send",
                                        ![c].command = parsed.command]
                /\ UNCHANGED <<stream_out, commands, permits, request_sends,
                               sent_log>>
    /\ UNCHANGED <<tables, classifier, accepted, oneshot, reply_sends, recv_log>>

\* commands_tx.send(..).await resumes once the queue has room.
ConnSend(c) ==
    /\ conn[c].pc = "send"
    /\ Enqueue(c, conn[c].command)
    /\ conn' = [conn EXCEPT ![c].pc = "reply_rx"]
    /\ UNCHANGED <<tables, classifier, accepted, stream_out, oneshot,
                   reply_sends, recv_log>>

\* A mutant of ConnReply that goes on to read the next line.
ConnReplyThenLoop(c) ==
    /\ conn[c].pc = "reply_rx"
    /\ oneshot[c].full
    /\ stream_out' = [stream_out EXCEPT ![c] = Append(@, oneshot[c].text)]
    /\ oneshot' = [oneshot EXCEPT ![c] = EmptySlot]
    /\ conn' = [conn EXCEPT ![c].pc = "read_line"]
    /\ UNCHANGED <<tables, classifier, accepted, commands, permits, reply_sends,
                   request_sends, sent_log, recv_log>>

\* reply_rx.await resumes with the reply, which is written to the stream;
\* the task returns.
ConnReply(c) ==
    /\ conn[c].pc = "reply_rx"
    /\ oneshot[c].full
    /\ stream_out' = [stream_out EXCEPT ![c] = Append(@, oneshot[c].text)]
    /\ oneshot' = [oneshot EXCEPT ![c] = EmptySlot]
    /\ conn' = [conn EXCEPT ![c].pc = "closed"]
    /\ UNCHANGED <<tables, classifier, accepted, commands, permits, reply_sends,
                   request_sends, sent_log, recv_log>>

\* -------------------------------------------------------------- executor
\* A mutant of recv that takes the request sent last.
recv_newest(queue) == Len(queue)

\* commands_rx.recv(): the position in the buffer of the request received,
\* the oldest one.
recv(queue) == 1

\* The buffer without its request at position i.
Remove(queue, i) == SubSeq(queue, 1, i - 1) \o SubSeq(queue, i + 1, Len(queue))

\* let command_request = commands_rx.recv().await
command_request == commands[recv(commands)]

\* format!("{}{}\t{}\n", buf, be_ip.to_ip(), count)
FmtEntry(buf, be_ip, count) ==
    Append(buf, FmtIp(to_ip(be_ip)) \o "\t" \o count \o "\n")

\* The fold of a map's entries into the reply text, the entries taken in
\* the order `keys`; shown[k] is the Display text of the value at k.
RECURSIVE FoldEntries(_, _)
FoldEntries(shown, keys) ==
    IF keys = <<>> THEN <<>>
    ELSE FmtEntry(FoldEntries(shown, SubSeq(keys, 1, Len(keys) - 1)),
                  keys[Len(keys)], shown[keys[Len(keys)]])

\* The orders in which HashMap::iter may yield the keys of a map.
IterOrders(m) ==
    {keys \in [1..Cardinality(DOMAIN m) -> DOMAIN m] :
        \A i, j \in DOMAIN keys : i # j => keys[i] # keys[j]}

\* impl Display for u32
FmtU32(n) == ToString(n)

ShowCounts(m) == [k \in DOMAIN m |-> FmtU32(m[k])]
ShowFlags(m) == [k \in DOMAIN m |-> FmtBool(m[k])]

\* A mutant of ReplySend that hands the text to the connection that has
\* waited longest for a reply instead of the one that came with the request.
ReplySendMisrouted(c, text) ==
    LET waiting == {d \in DOMAIN conn :
                       conn[d].pc = "reply_rx" /\ ~oneshot[d].full}
        to == CHOOSE d \in waiting : \A e \in waiting : d <= e
    IN  /\ oneshot' = [oneshot EXCEPT ![to] = [full |-> TRUE, text |-> text]]
        /\ reply_sends' = [reply_sends EXCEPT ![to] = @ + 1]

\* command_request.reply.send(text)
ReplySend(c, text) ==
    /\ oneshot' = [oneshot EXCEPT ![c] = [full |-> TRUE, text |-> text]]
    /\ reply_sends' = [reply_sends EXCEPT ![c] = @ + 1]

\* One turn of the loop in main starts by receiving the next request, which
\* frees its slot of the queue.
Dequeue ==
    /\ commands # <<>>
    /\ commands' = Remove(commands, recv(commands))
    /\ permits' = permits + 1
    /\ recv_log' = Append(recv_log, command_request.reply)

ExecListSrcIps ==
    /\ Dequeue
    /\ command_request.command.op = "ListSrcIps"
    /\ \E keys \in IterOrders(SRC_PACKETS) :
           ReplySend(command_request.reply,
                     FoldEntries(ShowCounts(SRC_PACKETS), keys))
    /\ UNCHANGED <<tables, classifier, accepted, conn, stream_out,
                   request_sends, sent_log>>

ExecListDstIps ==
    /\ Dequeue
    /\ command_request.command.op = "ListDstIps"
    /\ \E keys \in IterOrders(DST_PACKETS) :
           ReplySend(command_request.reply,
                     FoldEntries(ShowCounts(DST_PACKETS), keys))
    /\ UNCHANGED <<tables, classifier, accepted, conn, stream_out,
                   request_sends, sent_log>>

ExecListBlockSrc ==
    /\ Dequeue
    /\ command_request.command.op = "ListBlockSrc"
    /\ \E keys \in IterOrders(SRC_BLOCK) :
           ReplySend(command_request.reply,
                     FoldEntries(ShowFlags(SRC_BLOCK), keys))
    /\ UNCHANGED <<tables, classifier, accepted, conn, stream_out,
                   request_sends, sent_log>>

\* A mutant of ExecBlockSrc that goes to the next request without a reply
\* when the blocklist has no room for the address.
ExecBlockSrcSkipReply ==
    /\ Dequeue
    /\ command_request.command.op = "BlockSrc"
    /\ LET be_ip == BeIpv4Addr_from_ip(command_request.command.ip)
       IN  /\ SRC_BLOCK' = MapSet(SRC_BLOCK, be_ip, TRUE)
           /\ IF be_ip \in DOMAIN SRC_BLOCK'
              THEN ReplySend(command_request.reply, <<"ok\n">>)
              ELSE UNCHANGED <<oneshot, reply_sends>>
    /\ UNCHANGED <<SRC_PACKETS, DST_PACKETS, classifier, accepted, conn,
                   stream_out, request_sends, sent_log>>

\* Command::BlockSrc(ip): the address is set in SRC_BLOCK and "ok\n" is the
\* reply.
ExecBlockSrc ==
    /\ Dequeue
    /\ command_request.command.op = "BlockSrc"
    /\ LET be_ip == BeIpv4Addr_from_ip(command_request.command.ip)
       IN  SRC_BLOCK' = MapSet(SRC_BLOCK, be_ip, TRUE)
    /\ ReplySend(command_request.reply, <<"ok\n">>)
    /\ UNCHANGED <<SRC_PACKETS, DST_PACKETS, classifier, accepted, conn,
                   stream_out, request_sends, sent_log>>

\* --------------------------------------------------------- specifications
NextClassifier ==
    \/ \E cpu \in DOMAIN xdp, pkt \in Packets : ProcessNoIpHeader(cpu, pkt)
    \/ \E cpu \in DOMAIN xdp, pkt \in Packets : ProcessSrcGet(cpu, pkt)
    \/ \E cpu \in DOMAIN xdp : ProcessSrcSet(cpu)
    \/ \E cpu \in DOMAIN xdp : ProcessDstGet(cpu)
    \/ \E cpu \in DOMAIN xdp : ProcessDstSet(cpu)
    \/ \E cpu \in DOMAIN xdp : ProcessBlockCheck(cpu)

NextControl ==
    \/ Accept
    \/ \E c \in DOMAIN conn, line \in Lines : ConnReadLine(c, line)
    \/ \E c \in DOMAIN conn : ConnSend(c)
    \/ \E c \in DOMAIN conn : ConnReply(c)
    \/ ExecListSrcIps
    \/ ExecListDstIps
    \/ ExecListBlockSrc
    \/ ExecBlockSrc

Next == NextClassifier \/ NextControl

\* The whole system: packets arrive while clients issue commands.
Spec == Init /\ [][Next]_vars

\* The control plane alone, with more connections: no packet arrives.
SpecControl == InitControl /\ [][NextControl]_vars

\* The classifier alone on one CPU, with one more packet to receive so that a
\* counter reaches its maximum and is incremented once more.
ClassifierPackets == MaxPackets + 1
InitClassifier ==
    InitWith(Cpus, {}, QueueCapacity, ClassifierPackets) /\ codec = NoCodec
SpecClassifier == InitClassifier /\ [][NextClassifier]_vars

\* The scheduling of the control plane.  The current_thread runtime polls
\* every task that has been woken: main is woken when the queue holds a
\* request, and a task suspended in commands_tx.send when a slot is free
\* (the channel's semaphore serves its waiters first come, first served).
\* Nothing is assumed of the clients: when a client sends its line, and
\* whether it ever takes the reply written to it, is up to the client.
FairControl ==
    /\ WF_vars(ExecListSrcIps)
    /\ WF_vars(ExecListDstIps)
    /\ WF_vars(ExecListBlockSrc)
    /\ WF_vars(ExecBlockSrc)
    /\ \A c \in ControlConns : WF_vars(ConnSend(c))

SpecControlFair == InitControl /\ [][NextControl]_vars /\ FairControl

\* The classifier alone on two CPUs: the XDP program runs on the CPU whose
\* queue a packet arrived on, so two invocations of process() interleave at
\* each of their map operations.
SmpCpus == {"cpu0", "cpu1"}
InitSmp ==
    InitWith(SmpCpus, {}, QueueCapacity, ClassifierPackets) /\ codec = NoCodec
SpecSmp == InitSmp /\ [][NextClassifier]_vars

\* ----------------------------------------------------------------- claims
OkText == <<"ok\n">>

Range(seq) == {seq[i] : i \in DOMAIN seq}

Full(m) == Cardinality(DOMAIN m) = max_entries

\* The executor has replied "ok\n" to connection c's block-src command.
RepliedOk(c) ==
    /\ conn[c].command.op = "BlockSrc"
    /\ \/ oneshot[c].full /\ oneshot[c].text = OkText
       \/ stream_out[c] = <<OkText>>

\* This step is the blocklist check of the invocation on cpu.
BlockCheckStep(cpu) ==
    xdp[cpu].pc = "block_check" /\ xdp'[cpu].pc = "returned"

\* This step is the executor's turn for the request of connection c.
ExecStep(c) ==
    /\ commands # <<>>
    /\ recv_log' = Append(recv_log, c)

\* C1: once "ok\n" was the reply to block-src a, every packet with source a
\* whose blocklist check comes afterwards is Aborted, and every later
\* list-block-src reply has the line "a\ttrue\n".
C1_BlockTakesEffect ==
    [][/\ \A cpu \in DOMAIN xdp :
              (/\ BlockCheckStep(cpu)
               /\ \E c \in DOMAIN conn :
                      RepliedOk(c) /\ conn[c].command.ip = xdp[cpu].pkt.saddr)
              => xdp'[cpu].action = "Aborted"
       /\ \A c \in DOMAIN conn :
              (ExecStep(c) /\ conn[c].command.op = "ListBlockSrc")
              => \A d \in DOMAIN conn :
                     RepliedOk(d)
                     => \E i \in DOMAIN oneshot'[c].text :
                            oneshot'[c].text[i] =
                                FmtIp(conn[d].command.ip) \o "\ttrue\n"]_vars

\* C2: block-src of an address that is not in SRC_BLOCK while SRC_BLOCK is
\* full is not answered with "ok\n".
C2_FullBlocklistReported ==
    [][\A c \in DOMAIN conn :
           (/\ ExecStep(c)
            /\ conn[c].command.op = "BlockSrc"
            /\ Full(SRC_BLOCK)
            /\ BeIpv4Addr_from_ip(conn[c].command.ip) \notin DOMAIN SRC_BLOCK)
           => (oneshot'[c].full /\ oneshot'[c].text # OkText)]_vars

\* The invocation on cpu has returned Aborted.
Dropped(cpu) == xdp[cpu].pc = "returned" /\ xdp[cpu].action = "Aborted"

\* What an increment makes of the value `old` of an entry (0 when absent).
Incremented(old) == IF old = U32_MAX THEN U32_MAX ELSE old + 1

\* C3 as claimed: when a packet is Aborted, SRC_PACKETS has an entry for its
\* source, incremented from the count that was read for the packet.
C3_CountedBeforeDrop ==
    \A cpu \in DOMAIN xdp :
        Dropped(cpu)
        => /\ src_ip(xdp[cpu]) \in DOMAIN SRC_PACKETS
           /\ SRC_PACKETS[src_ip(xdp[cpu])] = Incremented(xdp[cpu].count_src)

\* C3 as amended: when a packet is Aborted, the set of its source's count
\* has been done: the entry is the count that was read, incremented; or
\* there is no entry for the source and SRC_PACKETS is full.
C3_SetBeforeDrop ==
    \A cpu \in DOMAIN xdp :
        Dropped(cpu)
        => IF src_ip(xdp[cpu]) \in DOMAIN SRC_PACKETS
           THEN SRC_PACKETS[src_ip(xdp[cpu])] = Incremented(xdp[cpu].count_src)
           ELSE Full(SRC_PACKETS)

C3_Witness ==
    \E cpu \in DOMAIN xdp :
        /\ Dropped(cpu)
        /\ src_ip(xdp[cpu]) \in DOMAIN SRC_PACKETS
        /\ SRC_PACKETS[src_ip(xdp[cpu])] = xdp[cpu].count_src + 1

\* C4: a packet without a valid IPv4 header is passed and no table changes,
\* whatever the tables hold.
C4_FailOpen ==
    [][\A cpu \in DOMAIN xdp :
           (/\ xdp[cpu].pc \in {"idle", "returned"}
            /\ npackets' # npackets
            /\ xdp'[cpu].pc # "idle"
            /\ ~xdp'[cpu].pkt.valid)
           => /\ xdp'[cpu].pc = "returned"
              /\ xdp'[cpu].action = "Pass"
              /\ SRC_PACKETS' = SRC_PACKETS
              /\ DST_PACKETS' = DST_PACKETS
              /\ SRC_BLOCK' = SRC_BLOCK]_vars

C4_Witness ==
    \E cpu \in DOMAIN xdp :
        /\ xdp[cpu].pc = "returned"
        /\ ~xdp[cpu].pkt.valid
        /\ xdp[cpu].action = "Pass"
        /\ load_be32(xdp[cpu].pkt.saddr) \in DOMAIN SRC_BLOCK
        /\ SRC_BLOCK[load_be32(xdp[cpu].pkt.saddr)]

\* C5: a set of the classifier that stores an entry stores the maximum when
\* the entry was at the maximum, 1 when it was absent, and one more than
\* its value otherwise, in SRC_PACKETS and in DST_PACKETS.
C5_SaturatingCounter ==
    [][\A cpu \in DOMAIN xdp :
           /\ (xdp[cpu].pc = "src_set" /\ xdp'[cpu].pc = "dst_get"
               /\ src_ip(xdp[cpu]) \in DOMAIN SRC_PACKETS')
              => SRC_PACKETS'[src_ip(xdp[cpu])] =
                     Incremented(MapGetOr(SRC_PACKETS, src_ip(xdp[cpu]), 0))
           /\ (xdp[cpu].pc = "dst_set" /\ xdp'[cpu].pc = "block_check"
               /\ dst_ip(xdp[cpu]) \in DOMAIN DST_PACKETS')
              => DST_PACKETS'[dst_ip(xdp[cpu])] =
                     Incremented(MapGetOr(DST_PACKETS, dst_ip(xdp[cpu]), 0))]_vars

C5_Witness ==
    \E cpu \in DOMAIN xdp :
        /\ xdp[cpu].pc = "dst_get"
        /\ xdp[cpu].count_src = U32_MAX
        /\ src_ip(xdp[cpu]) \in DOMAIN SRC_PACKETS
        /\ SRC_PACKETS[src_ip(xdp[cpu])] = U32_MAX

\* C6: no table ever holds more than max_entries entries, and a set of a
\* new key on a full table leaves the table as it is while its caller goes
\* on: the classifier to its next step, the executor to its reply.
C6_Capacity ==
    /\ [](/\ Cardinality(DOMAIN SRC_PACKETS) <= max_entries
          /\ Cardinality(DOMAIN DST_PACKETS) <= max_entries
          /\ Cardinality(DOMAIN SRC_BLOCK) <= max_entries)
    /\ [][/\ \A cpu \in DOMAIN xdp :
                 /\ (/\ xdp[cpu].pc = "src_set" /\ xdp'[cpu] # xdp[cpu]
                     /\ Full(SRC_PACKETS)
                     /\ src_ip(xdp[cpu]) \notin DOMAIN SRC_PACKETS)
                    => (SRC_PACKETS' = SRC_PACKETS /\ xdp'[cpu].pc = "dst_get")
                 /\ (/\ xdp[cpu].pc = "dst_set" /\ xdp'[cpu] # xdp[cpu]
                     /\ Full(DST_PACKETS)
                     /\ dst_ip(xdp[cpu]) \notin DOMAIN DST_PACKETS)
                    => (DST_PACKETS' = DST_PACKETS
                        /\ xdp'[cpu].pc = "block_check")
          /\ \A c \in DOMAIN conn :
                 (/\ ExecStep(c)
                  /\ conn[c].command.op = "BlockSrc"
                  /\ Full(SRC_BLOCK)
                  /\ BeIpv4Addr_from_ip(conn[c].command.ip)
                         \notin DOMAIN SRC_BLOCK)
                 => (SRC_BLOCK' = SRC_BLOCK /\ oneshot'[c].full)]_vars

C6_Witness ==
    /\ \E cpu \in DOMAIN xdp :
           /\ xdp[cpu].pc = "dst_get"
           /\ Full(SRC_PACKETS)
           /\ src_ip(xdp[cpu]) \notin DOMAIN SRC_PACKETS
    /\ \E c \in DOMAIN conn :
           /\ conn[c].command.op = "BlockSrc"
           /\ reply_sends[c] = 1
           /\ Full(SRC_BLOCK)
           /\ BeIpv4Addr_from_ip(conn[c].command.ip) \notin DOMAIN SRC_BLOCK

\* The command lines of the grammar: a list keyword alone, or block-src, one
\* space and an IPv4 address literal; trailing whitespace does not count.
Grammar ==
    {<<"list-src">>, <<"list-dst">>, <<"list-block-src">>}
        \cup {<<"block-src", " ", lit>> : lit \in DOMAIN IpLiterals}

IsParseError(line) == line # <<>> /\ trim_end(line) \notin Grammar

\* C7: a line that is a parse error makes its connection task write one
\* message of one line, send no request and end; no table, no queue and no
\* other connection changes.
C7_ParseError ==
    [][\A c \in DOMAIN conn, line \in Lines :
           (IsParseError(line) /\ ConnReadLine(c, line))
           => /\ Len(stream_out'[c]) = Len(stream_out[c]) + 1
              /\ Len(stream_out'[c][Len(stream_out'[c])]) = 1
              /\ conn'[c].pc = "closed"
              /\ commands' = commands
              /\ request_sends' = request_sends
              /\ sent_log' = sent_log
              /\ SRC_PACKETS' = SRC_PACKETS
              /\ DST_PACKETS' = DST_PACKETS
              /\ SRC_BLOCK' = SRC_BLOCK
              /\ \A d \in DOMAIN conn \ {c} :
                     conn'[d] = conn[d] /\ stream_out'[d] = stream_out[d]]_vars

C7_Witness ==
    \E c \in DOMAIN conn :
        /\ conn[c].pc = "closed"
        /\ stream_out[c] = << <<"unexpected parameters\n">> >>
        /\ request_sends[c] = 0
        /\ \E d \in DOMAIN conn : stream_out[d] = << <<"invalid command\n">> >>

\* C8: a connection sends at most one request and writes at most one text
\* (a reply or an error message) in its whole life.
C8_OneCommandPerConnection ==
    \A c \in DOMAIN conn :
        /\ request_sends[c] <= 1
        /\ Len(stream_out[c]) <= 1
        /\ (conn[c].pc \in {"unaccepted", "read_line", "send"}
            => request_sends[c] = 0 /\ stream_out[c] = <<>>)
        /\ (conn[c].pc = "reply_rx" => stream_out[c] = <<>>)

C8_Witness ==
    \E c \in DOMAIN conn :
        /\ conn[c].pc = "closed"
        /\ request_sends[c] = 1
        /\ Len(stream_out[c]) = 1

\* C9: every request the executor has received has had exactly one send on
\* its reply channel, and no other reply channel has had any.
C9_OneReplyPerRequest ==
    \A c \in DOMAIN conn :
        reply_sends[c] = IF c \in Range(recv_log) THEN 1 ELSE 0

C9_Witness ==
    \E c \in DOMAIN conn :
        /\ c \in Range(recv_log)
        /\ conn[c].command.op = "BlockSrc"
        /\ Full(SRC_BLOCK)
        /\ BeIpv4Addr_from_ip(conn[c].command.ip) \notin DOMAIN SRC_BLOCK
        /\ reply_sends[c] = 1

\* C10: the executor receives the requests in the order in which their
\* sends completed, the queue holding the ones not yet received; and when
\* it has received a request, every request sent before that one has its
\* reply.
C10_Fifo ==
    /\ Len(recv_log) <= Len(sent_log)
    /\ recv_log = SubSeq(sent_log, 1, Len(recv_log))
    /\ [i \in 1..Len(commands) |-> commands[i].reply] =
           SubSeq(sent_log, Len(recv_log) + 1, Len(sent_log))
    /\ \A i, j \in DOMAIN sent_log :
           (i < j /\ sent_log[j] \in Range(recv_log))
           => reply_sends[sent_log[i]] = 1

C10_Witness ==
    /\ Len(recv_log) = 2
    /\ \A c \in Range(recv_log) :
           /\ conn[c].command = [op |-> "BlockSrc", ip |-> <<10, 0, 0, 1>>]
           /\ reply_sends[c] = 1
    /\ Len(commands) = 1

\* C11: the queue never holds more than its capacity; a connection whose
\* command finds the queue full is suspended with the queue unchanged, stays
\* suspended until its request is enqueued, and its request is eventually
\* received by the executor.
C11_Backpressure ==
    /\ [](Len(commands) <= ControlQueueCapacity)
    /\ [][\A c \in DOMAIN conn :
              /\ (/\ conn[c].pc = "read_line"
                  /\ conn'[c].command # NoCommand
                  /\ Len(commands) = ControlQueueCapacity)
                 => (conn'[c].pc = "send" /\ commands' = commands)
              /\ (conn[c].pc = "send" /\ conn'[c].pc # "send")
                 => /\ conn'[c].pc = "reply_rx"
                    /\ commands' =
                           Append(commands,
                                  [command |-> conn[c].command, reply |-> c])]_vars
    /\ \A c \in ControlConns :
           (conn[c].pc = "send") ~> (c \in Range(recv_log))

C11_Witness ==
    \E c \in DOMAIN conn :
        /\ conn[c].pc = "send"
        /\ Len(commands) = ControlQueueCapacity
        /\ \E d \in DOMAIN conn : d > c /\ d \in Range(sent_log)

\* The task of every connection but s gets to write the reply it was sent.
OthersWriteReply(s) ==
    \A d \in ControlConns \ {s} : WF_vars(ConnReply(d))

\* The client of connection c has sent a valid command.
SentCommand(c) == conn[c].pc \in {"send", "reply_rx"}

\* C13: whichever connection s stalls, at whichever of its suspension points
\* and for however long, every other connection whose client has sent a
\* valid command gets its reply written; and in every state of the control
\* plane the accept loop can accept the next connection and the classifier
\* can take its next step.
C13_StalledClient ==
    /\ [](accepted < Cardinality(DOMAIN conn) => ENABLED Accept)
    /\ [](ENABLED NextClassifier)
    /\ \A s \in ControlConns :
           OthersWriteReply(s)
           => \A d \in ControlConns \ {s} :
                  SentCommand(d)
                  ~> (conn[d].pc = "closed" /\ Len(stream_out[d]) = 1)

\* A connection accepted earlier is still waiting for its client's line, and
\* another has its reply in hand that its client does not take, while a
\* connection accepted after both has been served.
C13_Witness ==
    \E s, t, d \in DOMAIN conn :
        /\ s < d /\ t < d
        /\ conn[s].pc = "read_line"
        /\ conn[t].pc = "reply_rx" /\ oneshot[t].full
        /\ conn[d].pc = "closed"
        /\ request_sends[d] = 1
        /\ Len(stream_out[d]) = 1

\* The executor has received a block-src command for the address whose
\* packets are looked up under key k.
BlockExecuted(k) ==
    \E c \in Range(recv_log) :
        /\ conn[c].command.op = "BlockSrc"
        /\ load_be32(conn[c].command.ip) = k

\* C14: an entry of SRC_BLOCK is true only if the executor has executed a
\* block-src command for its address; SRC_BLOCK changes only in a step in
\* which the executor executes a block-src command, so in no classifier step
\* and for no list command; and an entry that is true stays true.
C14_BlocklistByCommandOnly ==
    /\ [](\A k \in DOMAIN SRC_BLOCK : SRC_BLOCK[k] => BlockExecuted(k))
    /\ [][/\ SRC_BLOCK' # SRC_BLOCK
              => \E c \in DOMAIN conn :
                     ExecStep(c) /\ conn[c].command.op = "BlockSrc"
           /\ \A k \in DOMAIN SRC_BLOCK :
                  SRC_BLOCK[k] => (k \in DOMAIN SRC_BLOCK' /\ SRC_BLOCK'[k])]_vars

\* An address is blocked and a packet from it has been through the
\* classifier, and a block-src of another address has been executed with
\* the table full.
C14_Witness ==
    /\ \E cpu \in DOMAIN xdp :
           Dropped(cpu) /\ SRC_BLOCK[src_ip(xdp[cpu])]
    /\ Full(SRC_BLOCK)
    /\ \E c \in Range(recv_log) :
           /\ conn[c].command.op = "BlockSrc"
           /\ load_be32(conn[c].command.ip) \notin DOMAIN SRC_BLOCK

\* C15: to_ip gives every value an address (four octets), no other value is
\* given the same address, and From<Ipv4Addr> gives the value back.
C15_CodecBijection ==
    /\ codec.stage \in {"ip", "back"}
       => /\ codec.ip \in [1..4 -> 0..255]
          /\ \A w \in CodecValues \ {codec.v} : to_ip(w) # codec.ip
    /\ codec.stage = "back" => codec.back = codec.v

C15_Witness ==
    /\ codec.stage = "back"
    /\ codec.v = <<1, 0, 0, 127>>
    /\ codec.ip = <<127, 0, 0, 1>>
    /\ codec.back = <<1, 0, 0, 127>>

\* The address, as its octets, of the packets that are counted under key k.
AddressOf(k) == <<k[4], k[3], k[2], k[1]>>

\* The line of a list reply for the entry of key k in the table listed by
\* command op.
EntryLine(op, k) ==
    FmtIp(AddressOf(k)) \o "\t"
        \o (CASE op = "ListSrcIps" -> ToString(SRC_PACKETS[k])
              [] op = "ListDstIps" -> ToString(DST_PACKETS[k])
              [] op = "ListBlockSrc" ->
                     IF SRC_BLOCK[k] THEN "true" ELSE "false")
        \o "\n"

\* The keys of the table listed by command op.
ListedKeys(op) ==
    CASE op = "ListSrcIps" -> DOMAIN SRC_PACKETS
      [] op = "ListDstIps" -> DOMAIN DST_PACKETS
      [] op = "ListBlockSrc" -> DOMAIN SRC_BLOCK

SrcSetStep(cpu) == xdp[cpu].pc = "src_set" /\ xdp'[cpu].pc # "src_set"
DstSetStep(cpu) == xdp[cpu].pc = "dst_set" /\ xdp'[cpu].pc # "dst_set"

\* What the set for key k, of the increment of the count that was read for
\* it, makes of the counter table m: the entry of k becomes the incremented
\* count when there is one, full table or not; when there is none, a full
\* table stays as it is and a table with room takes the new entry.
ExpectedSet(m, k, count) ==
    IF k \in DOMAIN m
    THEN [x \in DOMAIN m |-> IF x = k THEN Incremented(count) ELSE m[x]]
    ELSE IF Full(m) THEN m
    ELSE [x \in DOMAIN m \cup {k} |-> IF x = k THEN Incremented(count) ELSE m[x]]

AnyCounterTableFull == Full(SRC_PACKETS) \/ Full(DST_PACKETS)

\* C17: with SRC_PACKETS or DST_PACKETS full, the set of a count in a full
\* table increments the entry of an address that is a key and changes
\* nothing for an address that is not; the other counter table is updated
\* as ever; and the verdict is Aborted exactly when SRC_BLOCK holds true for
\* the source.
C17_FullCounterTable ==
    [][\A cpu \in DOMAIN xdp :
           AnyCounterTableFull
           => /\ SrcSetStep(cpu)
                 => /\ SRC_PACKETS' =
                           ExpectedSet(SRC_PACKETS, load_be32(xdp[cpu].pkt.saddr),
                                       xdp[cpu].count_src)
                    /\ xdp'[cpu].pc = "dst_get"
              /\ DstSetStep(cpu)
                 => /\ DST_PACKETS' =
                           ExpectedSet(DST_PACKETS, load_be32(xdp[cpu].pkt.daddr),
                                       xdp[cpu].count_dst)
                    /\ xdp'[cpu].pc = "block_check"
              /\ BlockCheckStep(cpu)
                 => (xdp'[cpu].action = "Aborted"
                     <=> /\ load_be32(xdp[cpu].pkt.saddr) \in DOMAIN SRC_BLOCK
                         /\ SRC_BLOCK[load_be32(xdp[cpu].pkt.saddr)])]_vars

\* A packet has been passed whose source found SRC_PACKETS full and has no
\* entry, and whose destination's entry was incremented all the same.
C17_Witness ==
    \E cpu \in DOMAIN xdp :
        /\ xdp[cpu].pc = "returned" /\ xdp[cpu].action = "Pass"
        /\ xdp[cpu].pkt.valid
        /\ Full(SRC_PACKETS)
        /\ load_be32(xdp[cpu].pkt.saddr) \notin DOMAIN SRC_PACKETS
        /\ load_be32(xdp[cpu].pkt.daddr) \in DOMAIN DST_PACKETS
        /\ DST_PACKETS[load_be32(xdp[cpu].pkt.daddr)] = 2

\* The invocation on cpu has completed for a packet with the source whose
\* key is k.
CompletedFor(cpu, k) ==
    /\ xdp[cpu].pc = "returned"
    /\ xdp[cpu].pkt.valid
    /\ load_be32(xdp[cpu].pkt.saddr) = k

\* C18: the count of an address in SRC_PACKETS never decreases; and once two
\* invocations for packets of that address have completed, however their
\* get and set steps interleaved, it is at least min(2, u32::MAX).
C18_NoLostIncrements ==
    /\ [][\A k \in DOMAIN SRC_PACKETS :
              k \in DOMAIN SRC_PACKETS' /\ SRC_PACKETS'[k] >= SRC_PACKETS[k]]_vars
    /\ [](\A k \in DOMAIN SRC_PACKETS :
              (\E cpu1, cpu2 \in DOMAIN xdp :
                   cpu1 # cpu2 /\ CompletedFor(cpu1, k) /\ CompletedFor(cpu2, k))
              => SRC_PACKETS[k] >= (IF U32_MAX < 2 THEN U32_MAX ELSE 2))

\* A line of a list of the counter table m, for one of its entries and a
\* count the entry has had.
IsCountLine(line, m) ==
    \E k \in DOMAIN m :
        \E n \in 1..m[k] :
            line = FmtIp(AddressOf(k)) \o "\t" \o ToString(n) \o "\n"

\* The text is a reply the executor can have produced for the command.
IsReplyTo(command, text) ==
    CASE command.op = "BlockSrc" -> text = OkText
      [] command.op = "ListBlockSrc" ->
             \A i \in DOMAIN text :
                 \E k \in DOMAIN SRC_BLOCK :
                     text[i] = FmtIp(AddressOf(k)) \o "\ttrue\n"
      [] command.op = "ListSrcIps" ->
             \A i \in DOMAIN text : IsCountLine(text[i], SRC_PACKETS)
      [] command.op = "ListDstIps" ->
             \A i \in DOMAIN text : IsCountLine(text[i], DST_PACKETS)
      [] OTHER -> FALSE

\* C19: a reply channel holds a text only if the executor has received its
\* own connection's request, and the text is then a reply to that
\* connection's command; so is the text the connection writes after sending
\* a request; and a connection is sent at most one reply and writes at most
\* one text.
C19_ReplyRouting ==
    \A c \in DOMAIN conn :
        /\ reply_sends[c] <= 1
        /\ Len(stream_out[c]) <= 1
        /\ c \notin Range(recv_log) => (~oneshot[c].full /\ reply_sends[c] = 0)
        /\ oneshot[c].full => IsReplyTo(conn[c].command, oneshot[c].text)
        /\ (request_sends[c] = 1 /\ stream_out[c] # <<>>)
           => /\ c \in Range(recv_log)
              /\ IsReplyTo(conn[c].command, stream_out[c][1])

\* Three connections whose requests were in flight together have each
\* written the reply to their own command.
C19_Witness ==
    \E c, d, e \in DOMAIN conn :
        /\ sent_log = <<c, d, e>>
        /\ conn[c].command = [op |-> "BlockSrc", ip |-> <<10, 0, 0, 1>>]
        /\ stream_out[c] = <<OkText>>
        /\ conn[d].command.op = "ListBlockSrc"
        /\ stream_out[d] = << <<"10.0.0.1\ttrue\n">> >>
        /\ conn[e].command.op = "ListSrcIps"
        /\ stream_out[e] = << <<>> >>
        /\ c > d

\* The executor has executed a block-src command for the address ip.
BlockSrcExecuted(ip) ==
    \E c \in Range(recv_log) :
        conn[c].command = [op |-> "BlockSrc", ip |-> ip]

\* C20: a blocklist check returns Aborted only if a block-src command for
\* the packet's own source address has been executed before it; and a packet
\* without an IPv4 header is never Aborted.
C20_NoFalseDrop ==
    [][\A cpu \in DOMAIN xdp :
           (xdp'[cpu].pc = "returned" /\ xdp'[cpu].action = "Aborted")
           => /\ xdp'[cpu].pkt.valid
              /\ BlockSrcExecuted(xdp'[cpu].pkt.saddr)]_vars

\* A packet is Aborted for its blocked source although SRC_PACKETS is full
\* and has no entry for it, after a packet from an address with the same
\* bytes in reverse order, which is not blocked, has been passed.
C20_Witness ==
    \E cpu \in DOMAIN xdp :
        /\ Dropped(cpu)
        /\ xdp[cpu].pkt.saddr = <<10, 0, 0, 1>>
        /\ BlockSrcExecuted(<<10, 0, 0, 1>>)
        /\ ~BlockSrcExecuted(<<1, 0, 0, 10>>)
        /\ Full(SRC_PACKETS)
        /\ load_be32(<<1, 0, 0, 10>>) \in DOMAIN SRC_PACKETS
        /\ load_be32(<<10, 0, 0, 1>>) \notin DOMAIN SRC_PACKETS
====
